---- MODULE Spec2Model ----
(***************************************************************************)
(* Session-token handoff of the Enterprise Auth Demo web application.      *)
(*                                                                         *)
(* Server: POST /api/web/initialize-session (server.js, kept here as       *)
(* src/unnamed/part_001).  Client: the handoff in public/app.js (init,     *)
(* checkForSessionTokenInUrl, handleSessionTokenExchange).                 *)
(*                                                                         *)
(* A JavaScript handler runs to completion between two awaits, so every    *)
(* action below is one such run: the server handler has no await in its    *)
(* body and is a single action; the client is cut at each await.           *)
(*                                                                         *)
(* Spec        the page, the endpoint, and callers that post the page's    *)
(*             token at any moment (concurrently with the page)            *)
(* SpecTab     the tab over its loads and reloads, the clicks of its user, *)
(*             and the endpoint                                            *)
(* SpecServer  the endpoint alone, under callers that post any body, one   *)
(*             call after the other                                        *)
(* SpecApi     the protected endpoints, under callers that send any        *)
(*             Authorization header                                        *)
(***************************************************************************)
EXTENDS Integers, Sequences, FiniteSets, TLC

(***************************************************************************)
(* Bounds of the model.                                                    *)
(***************************************************************************)
\* number of calls the callers of the endpoint make one after the other
MaxReq == 2
\* number of times the token of the page's location is posted by someone else
MaxReplay == 1
\* number of clock steps
MaxTicks == 2
\* number of times the user reloads the tab
MaxReloads == 1
\* number of requests to the protected endpoints
MaxApi == 1

(***************************************************************************)
(* Program constants.                                                      *)
(***************************************************************************)
\* Date.now() is in milliseconds, the exp claim in seconds
MsPerSec == 1000
\* maxAge of the session cookie
CookieMaxAge == 24 * 60 * 60 * 1000

\* the clock advances by half a second
StepMs == MsPerSec \div 2

\* a JavaScript undefined (an absent claim, an absent field)
Undefined == "undefined"

\* JavaScript truthiness of a string-or-undefined value / of a number-or-undefined
TruthyStr(s) == s # Undefined /\ s # ""
TruthyNum(n) == n # 0

\* a || b on string-or-undefined values
Or(a, b) == IF TruthyStr(a) THEN a ELSE b

(***************************************************************************)
(* The strings a caller can present as sessionToken.  A string is          *)
(* described by what it is made of:                                        *)
(*   form  "empty"         no sessionToken in the body, or ""              *)
(*         "garbage"       not three base64url segments / header not JSON  *)
(*         "throws"        header typ = JWT and a payload that is not JSON *)
(*         "nullPayload"   header typ = JWT and payload JSON null          *)
(*         "scalarPayload" payload a JSON value that is no object          *)
(*         "claims"        payload a JSON object: the claims below         *)
(*   sig   whether the third segment is a valid signature of the first two *)
(*   exp   the exp claim in seconds, 0 when absent (both are falsy)        *)
(*   iat   the iat claim in seconds; second 0 is the start of the model's  *)
(*         clock, so a token minted before it has a negative iat           *)
(***************************************************************************)
Token(jti, form, sig, type, iat, exp, sub, oid, email, upn, name) ==
    [jti |-> jti, form |-> form, sig |-> sig, type |-> type, iat |-> iat,
     exp |-> exp, sub |-> sub, oid |-> oid, email |-> email,
     preferred_username |-> upn, name |-> name]

NoClaims(jti, form) ==
    Token(jti, form, FALSE, Undefined, 0, 0, Undefined, Undefined, Undefined,
          Undefined, Undefined)

\* exp = iat + 60 of the tokens the backend mints
TokenLifetimeSec == 60
\* iat of a token minted so that it expires at second 1
MintedAt == 1 - TokenLifetimeSec
\* iat of a token minted an hour before the start of the clock
HourAgo == 0 - 3600

\* no sessionToken at all
tokEmpty == NoClaims("none", "empty")
\* minted for Alice, expires at second 1
tokAlice == Token("t-alice", "claims", TRUE, "session_init", MintedAt, 1, "sub-alice",
                  Undefined, "alice@corp", Undefined, "Alice")
\* minted for Bob without sub and email claims (oid / preferred_username only)
tokBob == Token("t-bob", "claims", TRUE, "session_init", MintedAt, 1, Undefined,
                "oid-bob", Undefined, "bob@corp", "Bob")
\* claims of Alice under a signature that does not verify
tokForged == Token("t-forged", "claims", FALSE, "session_init", MintedAt, 1, "sub-alice",
                   Undefined, "alice@corp", Undefined, "Alice")
\* a correctly signed token of another kind
tokAccess == Token("t-access", "claims", TRUE, "access", MintedAt, 1, "sub-alice",
                   Undefined, "alice@corp", Undefined, "Alice")
\* a session_init token without exp claim, minted an hour ago
tokNoExp == Token("t-noexp", "claims", TRUE, "session_init", HourAgo, 0, "sub-alice",
                  Undefined, "alice@corp", Undefined, "Alice")
\* a correctly signed session_init token minted an hour ago with exp at second 1
tokLong == Token("t-long", "claims", TRUE, "session_init", HourAgo, 1, "sub-alice",
                 Undefined, "alice@corp", Undefined, "Alice")
tokGarbage == NoClaims("g", "garbage")
tokThrows == NoClaims("x", "throws")
tokNull == NoClaims("n", "nullPayload")
tokScalar == NoClaims("s", "scalarPayload")

Tokens == {tokAlice, tokBob, tokForged, tokAccess, tokNoExp, tokLong,
           tokGarbage, tokThrows, tokNull, tokScalar}

Bodies == Tokens \cup {tokEmpty}

\* process.env.NODE_ENV: Undefined when the variable is not set
NodeEnvs == {"production", "development", "staging", Undefined}

(***************************************************************************)
(* jwt.decode(sessionToken, { complete: true }) of the jsonwebtoken        *)
(* library: it parses and never verifies the signature (t.sig is not       *)
(* read).  It returns null, throws (JSON.parse of the payload when the     *)
(* header says typ JWT), or returns { header, payload, signature }.        *)
(* Reading a claim of a payload that is no object yields undefined.        *)
(***************************************************************************)
Payload(truthy, t) ==
    [truthy |-> truthy, type |-> t.type, exp |-> t.exp, sub |-> t.sub,
     oid |-> t.oid, email |-> t.email,
     preferred_username |-> t.preferred_username, name |-> t.name]

JwtDecode(t) ==
    CASE t.form = "garbage" ->
           [outcome |-> "null", payload |-> Payload(FALSE, tokGarbage)]
      [] t.form = "throws" ->
           [outcome |-> "throw", payload |-> Payload(FALSE, tokThrows)]
      [] t.form = "nullPayload" ->
           [outcome |-> "value", payload |-> Payload(FALSE, tokNull)]
      [] t.form = "scalarPayload" ->
           [outcome |-> "value", payload |-> Payload(TRUE, tokScalar)]
      [] OTHER ->
           [outcome |-> "value", payload |-> Payload(TRUE, t)]

(***************************************************************************)
(* The responses of the exchange endpoint.                                 *)
(***************************************************************************)
NoUser == [name |-> Undefined, email |-> Undefined, username |-> Undefined]

\* res.status(status).json({ error, details })
ErrorResponse(status, error, details) ==
    [status |-> status, error |-> error, details |-> details,
     success |-> FALSE, user |-> NoUser, cookies |-> <<>>]

NoResponse == ErrorResponse(0, Undefined, Undefined)

ErrRequired == "Session token required"
ErrFormat == "Invalid session token format"
ErrExpired == "Session token expired"
ErrType == "Invalid token type"
ErrFailed == "Session initialization failed"

\* CookieSecure as process.env.NODE_ENV !== 'development'
CookieSecureNotDevelopment(env) == env # "development"

\* secure: process.env.NODE_ENV === 'production'
CookieSecure(env) == env = "production"

\* SessionCookie with userId: payload.oid, the sub claim not read
SessionCookieOidOnly(payload, at, env) ==
    [name |-> "session",
     userId |-> payload.oid,
     email |-> Or(payload.email, payload.preferred_username),
     userName |-> payload.name,
     authenticatedAt |-> at,
     httpOnly |-> TRUE,
     secure |-> CookieSecure(env),
     sameSite |-> "lax",
     maxAge |-> CookieMaxAge]

\* sessionData and the options of res.cookie('session', ...)
SessionCookie(payload, at, env) ==
    [name |-> "session",
     userId |-> Or(payload.sub, payload.oid),
     email |-> Or(payload.email, payload.preferred_username),
     userName |-> payload.name,
     authenticatedAt |-> at,
     httpOnly |-> TRUE,
     secure |-> CookieSecure(env),
     sameSite |-> "lax",
     maxAge |-> CookieMaxAge]

\* the user object of the success body
ResponseUser(payload) ==
    [name |-> payload.name,
     email |-> Or(payload.email, payload.preferred_username),
     username |-> Or(payload.preferred_username, payload.email)]

SuccessResponse(payload, at, env) ==
    [status |-> 200, error |-> Undefined, details |-> Undefined,
     success |-> TRUE, user |-> ResponseUser(payload),
     cookies |-> <<SessionCookie(payload, at, env)>>]

\* payload.exp && payload.exp < Date.now() / 1000
IsExpired(payload, at) ==
    TruthyNum(payload.exp) /\ payload.exp * MsPerSec < at

\* IsWrongType as !payload.type: only a missing type claim is refused
IsWrongTypeMissingOnly(payload) == ~TruthyStr(payload.type)

\* payload.type !== 'session_init'
IsWrongType(payload) == payload.type # "session_init"

\* CatchDetails as process.env.NODE_ENV !== 'production' ? error.message : undefined
CatchDetailsNotProduction(env) ==
    IF env # "production" THEN "SyntaxError: Unexpected token" ELSE Undefined

\* details: process.env.NODE_ENV === 'development' ? error.message : undefined
CatchDetails(env) ==
    IF env = "development" THEN "SyntaxError: Unexpected token" ELSE Undefined

\* InitializeSession with res.cookie(...) moved above the check of the
\* token type: the refusal of a wrong type then carries the cookie
InitializeSessionCookieEarly(sessionToken, at, env) ==
    IF sessionToken.form = "empty"
    THEN ErrorResponse(400, ErrRequired, Undefined)
    ELSE LET decoded == JwtDecode(sessionToken)
             payload == decoded.payload
         IN  IF decoded.outcome = "throw"
             THEN ErrorResponse(401, ErrFailed, CatchDetails(env))
             ELSE IF decoded.outcome = "null" \/ ~payload.truthy
             THEN ErrorResponse(401, ErrFormat, Undefined)
             ELSE IF IsExpired(payload, at)
             THEN ErrorResponse(401, ErrExpired, Undefined)
             ELSE IF IsWrongType(payload)
             THEN [ErrorResponse(401, ErrType, Undefined) EXCEPT
                     !.cookies = <<SessionCookie(payload, at, env)>>]
             ELSE SuccessResponse(payload, at, env)

\* InitializeSession without the test if (!sessionToken): a missing token
\* goes to jwt.decode, which returns null for it
InitializeSessionNoRequired(sessionToken, at, env) ==
    LET decoded == JwtDecode(IF sessionToken.form = "empty"
                             THEN tokGarbage ELSE sessionToken)
        payload == decoded.payload
    IN  IF decoded.outcome = "throw"
        THEN ErrorResponse(401, ErrFailed, CatchDetails(env))
        ELSE IF decoded.outcome = "null" \/ ~payload.truthy
        THEN ErrorResponse(401, ErrFormat, Undefined)
        ELSE IF IsExpired(payload, at)
        THEN ErrorResponse(401, ErrExpired, Undefined)
        ELSE IF IsWrongType(payload)
        THEN ErrorResponse(401, ErrType, Undefined)
        ELSE SuccessResponse(payload, at, env)

(***************************************************************************)
(* The handler of POST /api/web/initialize-session, as a function of the   *)
(* body's sessionToken, the clock and NODE_ENV.  The handler keeps no      *)
(* record of the tokens it has redeemed.                                   *)
(***************************************************************************)
InitializeSession(sessionToken, at, env) ==
    IF sessionToken.form = "empty"
    THEN ErrorResponse(400, ErrRequired, Undefined)
    ELSE LET decoded == JwtDecode(sessionToken)
             payload == decoded.payload
         IN  IF decoded.outcome = "throw"
             THEN ErrorResponse(401, ErrFailed, CatchDetails(env))
             ELSE IF decoded.outcome = "null" \/ ~payload.truthy
             THEN ErrorResponse(401, ErrFormat, Undefined)
             ELSE IF IsExpired(payload, at)
             THEN ErrorResponse(401, ErrExpired, Undefined)
             ELSE IF IsWrongType(payload)
             THEN ErrorResponse(401, ErrType, Undefined)
             ELSE SuccessResponse(payload, at, env)

(***************************************************************************)
(* Console output.  An entry records a call of console.log / console.error *)
(* that has an argument other than a literal: where it is (site), the text *)
(* its arguments print (text, details), and the raw token among its        *)
(* arguments (token; tokEmpty when no argument is a token string).         *)
(***************************************************************************)
LogEntry(site, text, details, token) ==
    [site |-> site, text |-> text, details |-> details, token |-> token]

\* console.log / console.error of values that are no token
LogText(site, text) == LogEntry(site, text, Undefined, tokEmpty)

\* the sites of the server's console calls that print values
ServerSites == {"server.js:62", "server.js:68", "server.js:233",
                "server.js:236"}

\* InitializeSessionLog with sessionToken as the value that line 233 prints
InitializeSessionLogToken(sessionToken, at, env) ==
    IF InitializeSession(sessionToken, at, env).status = 200
    THEN {LogEntry("server.js:233", "token", Undefined, sessionToken)}
    ELSE {}

\* what the handler of POST /api/web/initialize-session writes:
\* console.error('Session initialization error:', error) in the catch,
\* console.log('Session initialized for user:', payload.name || payload.email)
\* on success
InitializeSessionLog(sessionToken, at, env) ==
    LET response == InitializeSession(sessionToken, at, env)
        payload == JwtDecode(sessionToken).payload
    IN  IF response.status = 200
        THEN {LogText("server.js:233", Or(payload.name, payload.email))}
        ELSE IF response.error = ErrFailed
        THEN {LogText("server.js:236", "SyntaxError: Unexpected token")}
        ELSE {}

(***************************************************************************)
(* validateToken and the protected routes: GET /api/user/profile,          *)
(* GET /api/data, POST /api/validate-token.  validateToken has no await in *)
(* its body and the route handlers run inside its call of next(), so a     *)
(* request is handled in one step.                                         *)
(***************************************************************************)
Endpoints == {"/api/user/profile", "/api/data", "/api/validate-token"}

\* req.headers.authorization: no header (scheme "none"), or <scheme> <token>
Authorization(scheme, token) == [scheme |-> scheme, token |-> token]

\* the tokens a caller puts behind 'Bearer ' (tokEmpty: nothing behind it)
BearerTokens == {tokAccess, tokForged, tokNoExp, tokGarbage, tokThrows,
                 tokNull, tokScalar, tokEmpty}

Headers ==
    {Authorization("none", tokEmpty), Authorization("Basic", tokAccess),
     Authorization("bearer", tokAccess)}
        \cup {Authorization("Bearer", t) : t \in BearerTokens}

ErrNoToken == "No token provided"
ErrTokenFormat == "Invalid token format"
ErrTokenExpired == "Token expired"
ErrValidation == "Token validation failed"

\* res.status(401).json({ error, details }); the route handler does not run
Unauthorized(error, details) ==
    [status |-> 401, error |-> error, details |-> details, served |-> FALSE]

\* next(): the route handler runs and answers with res.json(...)
Served == [status |-> 200, error |-> Undefined, details |-> Undefined,
           served |-> TRUE]

\* jwt.decode of what follows 'Bearer ': null for the empty string
DecodeBearer(t) == JwtDecode(IF t.form = "empty" THEN tokGarbage ELSE t)

\* ValidateToken without the check of payload.exp
ValidateTokenNoExpiry(authHeader, at) ==
    IF authHeader.scheme # "Bearer"
    THEN Unauthorized(ErrNoToken, Undefined)
    ELSE LET decoded == DecodeBearer(authHeader.token)
             payload == decoded.payload
         IN  IF decoded.outcome = "throw"
             THEN Unauthorized(ErrValidation, "SyntaxError: Unexpected token")
             ELSE IF decoded.outcome = "null"
             THEN Unauthorized(ErrTokenFormat, Undefined)
             ELSE IF ~payload.truthy
             THEN Unauthorized(ErrValidation,
                               "TypeError: Cannot read properties of null")
             ELSE Served

\* validateToken(req, res, next): !authHeader || !startsWith('Bearer '),
\* jwt.decode (the signature is not verified: t.sig is not read), !decoded,
\* payload.exp (a TypeError on a null payload, caught), next()
ValidateToken(authHeader, at) ==
    IF authHeader.scheme # "Bearer"
    THEN Unauthorized(ErrNoToken, Undefined)
    ELSE LET decoded == DecodeBearer(authHeader.token)
             payload == decoded.payload
         IN  IF decoded.outcome = "throw"
             THEN Unauthorized(ErrValidation, "SyntaxError: Unexpected token")
             ELSE IF decoded.outcome = "null"
             THEN Unauthorized(ErrTokenFormat, Undefined)
             ELSE IF ~payload.truthy
             THEN Unauthorized(ErrValidation,
                               "TypeError: Cannot read properties of null")
             ELSE IF IsExpired(payload, at)
             THEN Unauthorized(ErrTokenExpired, Undefined)
             ELSE Served

\* what validateToken writes: console.error('Token validation exception:',
\* error) in the catch; console.log('Token received - Issuer:', payload.iss,
\* 'Audience:', payload.aud) before next() (claims the tokens of the model
\* do not carry)
ValidateTokenLog(authHeader, at) ==
    LET response == ValidateToken(authHeader, at)
    IN  IF response.served
        THEN {LogText("server.js:62", Undefined)}
        ELSE IF response.error = ErrValidation
        THEN {LogText("server.js:68", response.details)}
        ELSE {}

(***************************************************************************)
(* The page (public/app.js).                                               *)
(***************************************************************************)
\* window.location: the session_token parameter of the query, tokEmpty
\* when the query has none
Location(pathname, session_token, hash) ==
    [pathname |-> pathname, session_token |-> session_token, hash |-> hash]

\* ReplaceState with cleanUrl = window.location.pathname: the fragment is
\* dropped with the query
ReplaceStatePathOnly(loc) == Location(loc.pathname, tokEmpty, "")

\* window.history.replaceState({}, document.title, pathname + hash)
ReplaceState(loc) == Location(loc.pathname, tokEmpty, loc.hash)

\* urlParams.get('session_token'), and the test if (sessionToken)
checkForSessionTokenInUrl(loc) == loc.session_token

\* TokenInUrl as if (sessionToken !== undefined): get() returns null for
\* an absent parameter, so the test passes on every location
TokenInUrlNotUndefined(loc) == checkForSessionTokenInUrl(loc).form # "no value"

TokenInUrl(loc) == checkForSessionTokenInUrl(loc).form # "empty"

\* what the awaited fetch settles to: nothing yet, a response, or a
\* rejection (the call could not complete)
NotSettled == [kind |-> "none", response |-> NoResponse]
Fulfilled(r) == [kind |-> "response", response |-> r]
Rejected == [kind |-> "rejected", response |-> NoResponse]

\* response.ok
ResponseOk(r) == r.status >= 200 /\ r.status <= 299

StatusInitializing == "Initializing..."
StatusInitError == "Error initializing"
StatusReady == "Ready"
StatusExchanging == "Initializing session from native app..."
StatusAuthenticated == "Authenticated"
StatusNative == "Authenticated via native app"
StatusExchangeFailed == "Session initialization failed, redirecting to login..."
StatusSigningIn == "Signing in..."
StatusSignInFailed == "Sign in failed"
StatusSigningOut == "Signing out..."

VARIABLES
    now,        \* Date.now(), in milliseconds
    nodeEnv,    \* process.env.NODE_ENV
    requests,   \* the exchange requests sent so far: <<[sessionToken, from, seen]>>
    responses,  \* responses[i]: the response to requests[i] (status 0: none yet)
    order,      \* the requests in the order the server handled them: <<[req, at]>>
    api,        \* the requests to the protected endpoints, with their answers
    location,   \* window.location of the tab
    pc,         \* where the page's script is suspended
    hstate,     \* state of the handoff: Idle, Exchanging, Authenticated, FallbackLogin
    pageReq,    \* index in requests of the page's fetch, 0 before it
    fetchResult,\* what the page's fetch settled to
    cookieJar,  \* the cookies the browser holds for the site
    ui,         \* loading, the two views, status text, debug panel
    timer,      \* the fallback timer of the catch block is pending
    listeners,  \* setupEventListeners has run
    tab,        \* the loads of the tab, the token in the location at this
                \* load, the exchange requests of this load, whether the
                \* script's tokenResponse is set, the interactive logins
                \* begun, how the last ssoSilent of this load settled
    console     \* what console.log / console.error have written, on the
                \* server and in the browser: {[site, text, details, token]}

server == <<now, nodeEnv, requests, responses, order, api>>
page == <<location, pc, hstate, pageReq, fetchResult,
          cookieJar, ui, timer, listeners, tab>>

vars == <<now, nodeEnv, requests, responses, order, api, location, pc, hstate, pageReq, fetchResult, cookieJar, ui, timer,
          listeners, tab, console>>

Pending(i) == i \in 1..Len(requests) /\ responses[i].status = 0

\* the step writes these entries to a console
Logged(entries) == console' = console \cup entries

\* the clock reads StepMs when the server starts
ServerInit ==
    /\ now = StepMs
    /\ nodeEnv \in NodeEnvs
    /\ requests = <<>>
    /\ responses = <<>>
    /\ order = <<>>
    /\ api = <<>>

\* the script's variables when a document starts to load at loc
\* (let tokenResponse = null); loads counts the reloads of the tab;
\* entries is window.history.length: the tab was opened on loc, and a
\* reload keeps the entry it reloads
Load(loc, loads, interactive) ==
    [loads |-> loads, loaded |-> loc.session_token, sent |-> 0,
     tokenResponse |-> FALSE, interactive |-> interactive, sso |-> "none",
     entries |-> 1]

FirstLoad(loc) == Load(loc, 0, 0)

\* the tab is opened on one of the locations locs; the script has not run
\* yet and nothing is displayed
PageOpened(locs) ==
    /\ location \in locs
    /\ pc = "start"
    /\ hstate = "Idle"
    /\ pageReq = 0
    /\ fetchResult = NotSettled
    /\ cookieJar = <<>>
    /\ ui = [loading |-> FALSE, authenticatedView |-> FALSE,
             unauthenticatedView |-> FALSE, statusText |-> "",
             debugContent |-> Undefined]
    /\ timer = FALSE
    /\ listeners = FALSE
    /\ tab = FirstLoad(location)

\* the tab is opened on "/", with or without ?session_token=<token>
PageInit == PageOpened({Location("/", t, "") : t \in Bodies})

\* the locations of the demo: the root or a path under it, with or without
\* ?session_token=<token>, with or without a fragment
Pathnames == {"/", "/app"}
Hashes == {"", "#profile"}
Locations ==
    {Location(p, t, h) : p \in Pathnames, t \in {tokAlice, tokAccess, tokEmpty},
                         h \in Hashes}

\* the tab is opened on any of these locations
PageAnywhere == PageOpened(Locations)

\* nothing has been written to a console
ConsoleInit == console = {}

Init == ServerInit /\ PageInit /\ ConsoleInit

(***************************************************************************)
(* Server and callers.                                                     *)
(***************************************************************************)
\* the request a caller sends; seen: how many requests the server had
\* handled when this one was sent
Request(t, from) == [sessionToken |-> t, from |-> from, seen |-> Len(order)]

\* a caller other than the page (a second tab, a script, someone who read
\* the token from the address bar) posts a body to the endpoint
Call(t, max) ==
    /\ Cardinality({i \in 1..Len(requests) : requests[i].from = "direct"}) < max
    /\ requests' = Append(requests, Request(t, "direct"))
    /\ responses' = Append(responses, NoResponse)
    /\ UNCHANGED <<now, nodeEnv, order, api>>
    /\ UNCHANGED page
    /\ UNCHANGED console

\* a caller that waits for the answer to the previous call
DirectCall(t) ==
    /\ \A i \in 1..Len(requests) : ~Pending(i)
    /\ Call(t, MaxReq)

\* app.post('/api/web/initialize-session', ...) handles request i
PostInitializeSession(i) ==
    /\ Pending(i)
    /\ responses' = [responses EXCEPT
                       ![i] = InitializeSession(requests[i].sessionToken, now, nodeEnv)]
    /\ order' = Append(order, [req |-> i, at |-> now])
    /\ console' = console \cup
                     InitializeSessionLog(requests[i].sessionToken, now, nodeEnv)
    /\ UNCHANGED <<now, nodeEnv, requests, api>>
    /\ UNCHANGED page

\* a caller sends a request to a protected endpoint and the server
\* handles it: app.get(endpoint, validateToken, handler)
ProtectedRequest(endpoint, authHeader) ==
    /\ Len(api) < MaxApi
    /\ api' = Append(api, [endpoint |-> endpoint, authorization |-> authHeader,
                           at |-> now,
                           response |-> ValidateToken(authHeader, now)])
    /\ console' = console \cup ValidateTokenLog(authHeader, now)
    /\ UNCHANGED <<now, nodeEnv, requests, responses, order>>
    /\ UNCHANGED page

\* time passes
Tick ==
    /\ now < (MaxTicks + 1) * StepMs
    /\ now' = now + StepMs
    /\ UNCHANGED <<nodeEnv, requests, responses, order, api>>
    /\ UNCHANGED page
    /\ UNCHANGED console

(***************************************************************************)
(* init() and handleSessionTokenExchange(), cut at their awaits.           *)
(***************************************************************************)
\* the catch block of init(): updateStatus('Error initializing', true),
\* showDebugInfo(error)
InitFailed(message) ==
    /\ ui' = [ui EXCEPT !.statusText = StatusInitError, !.debugContent = message]
    /\ pc' = "done"
    /\ UNCHANGED <<location, hstate, pageReq,
                   fetchResult, cookieJar, timer, listeners, tab>>
    /\ UNCHANGED server
    /\ Logged({LogText("app.js:108", message)})

\* init() up to await fetchConfig(); msalLoaded: typeof msal !== 'undefined'
\* when waitForMSAL resolves
InitStart(msalLoaded) ==
    /\ pc = "start"
    /\ IF ~msalLoaded
       THEN InitFailed("MSAL library failed to load")
       ELSE /\ ui' = [ui EXCEPT !.statusText = StatusInitializing]
            /\ pc' = "awaitConfig"
            /\ UNCHANGED <<location, hstate, pageReq,
                           fetchResult, cookieJar, timer, listeners, tab>>
            /\ UNCHANGED server
            /\ UNCHANGED console

\* GET /api/config answered: new PublicClientApplication, await initialize()
ConfigFetched ==
    /\ pc = "awaitConfig"
    /\ pc' = "awaitMsalInit"
    /\ UNCHANGED <<location, hstate, pageReq,
                   fetchResult, cookieJar, ui, timer, listeners, tab>>
    /\ UNCHANGED server
    /\ UNCHANGED console

\* GET /api/config failed or was answered with an error status
ConfigFailed ==
    /\ pc = "awaitConfig"
    /\ InitFailed("Failed to fetch configuration")

\* msalInstance.initialize() threw
MsalInitFailed ==
    /\ pc = "awaitMsalInit"
    /\ InitFailed("MSAL initialization failed")

\* StartExchange with the fetch wrapped in a retry that posts the body again
\* at once
StartExchangeTwice ==
    /\ pc = "awaitMsalInit"
    /\ TokenInUrl(location)
    /\ ui' = [ui EXCEPT !.loading = TRUE, !.statusText = StatusExchanging]
    /\ requests' = requests \o
                      <<Request(checkForSessionTokenInUrl(location), "page"),
                        Request(checkForSessionTokenInUrl(location), "page")>>
    /\ responses' = responses \o <<NoResponse, NoResponse>>
    /\ pageReq' = Len(requests) + 2
    /\ hstate' = "Exchanging"
    /\ pc' = "awaitExchange"
    /\ tab' = [tab EXCEPT !.sent = @ + 2]
    /\ UNCHANGED <<now, nodeEnv, order, api>>
    /\ UNCHANGED console
    /\ UNCHANGED <<location, fetchResult, cookieJar,
                   timer, listeners>>

\* StartExchange with setupEventListeners() called before
\* handleSessionTokenExchange
StartExchangeListening ==
    /\ pc = "awaitMsalInit"
    /\ TokenInUrl(location)
    /\ ui' = [ui EXCEPT !.loading = TRUE, !.statusText = StatusExchanging]
    /\ requests' = Append(requests,
                          Request(checkForSessionTokenInUrl(location), "page"))
    /\ responses' = Append(responses, NoResponse)
    /\ pageReq' = Len(requests) + 1
    /\ hstate' = "Exchanging"
    /\ pc' = "awaitExchange"
    /\ tab' = [tab EXCEPT !.sent = @ + 1]
    /\ listeners' = TRUE
    /\ UNCHANGED <<now, nodeEnv, order, api>>
    /\ UNCHANGED console
    /\ UNCHANGED <<location, fetchResult, cookieJar, timer>>

\* msalInstance.initialize() returned and the location holds a token:
\* init() calls handleSessionTokenExchange, which runs up to await fetch(...)
StartExchange ==
    /\ pc = "awaitMsalInit"
    /\ TokenInUrl(location)
    /\ ui' = [ui EXCEPT !.loading = TRUE, !.statusText = StatusExchanging]
    /\ requests' = Append(requests,
                          Request(checkForSessionTokenInUrl(location), "page"))
    /\ responses' = Append(responses, NoResponse)
    /\ pageReq' = Len(requests) + 1
    /\ hstate' = "Exchanging"
    /\ pc' = "awaitExchange"
    /\ tab' = [tab EXCEPT !.sent = @ + 1]
    /\ UNCHANGED <<now, nodeEnv, order, api>>
    /\ UNCHANGED console
    /\ UNCHANGED <<location, fetchResult, cookieJar,
                   timer, listeners>>

\* msalInstance.initialize() returned and the location holds no token:
\* await msalInstance.handleRedirectPromise()
StartNormalFlow ==
    /\ pc = "awaitMsalInit"
    /\ ~TokenInUrl(location)
    /\ pc' = "awaitRedirect"
    /\ UNCHANGED <<location, hstate, pageReq,
                   fetchResult, cookieJar, ui, timer, listeners, tab>>
    /\ UNCHANGED server
    /\ UNCHANGED console

\* the normal flow after handleRedirectPromise, which resolves with null
\* (the tab was opened by a link, not by a redirect back from the identity
\* provider) (accounts: the length of
\* msalInstance.getAllAccounts()): without a cached account
\* showUnauthenticatedView, setupEventListeners, 'Ready'; with one,
\* handleAuthenticatedUser awaits acquireTokenSilent
NormalFlow(accounts) ==
    /\ pc = "awaitRedirect"
    /\ IF accounts > 0
       THEN /\ pc' = "awaitInitTokenSilent"
            /\ UNCHANGED <<ui, listeners>>
       ELSE /\ ui' = [ui EXCEPT !.unauthenticatedView = TRUE,
                                !.authenticatedView = FALSE,
                                !.loading = FALSE,
                                !.statusText = StatusReady]
            /\ listeners' = TRUE
            /\ pc' = "done"
    /\ UNCHANGED <<location, hstate, pageReq,
                   fetchResult, cookieJar, timer, tab>>
    /\ UNCHANGED server
    /\ UNCHANGED console

\* acquireTokenSilent of the normal flow settled (acquired: it resolved
\* and tokenResponse is set; otherwise its failure is caught and logged):
\* showAuthenticatedView, setupEventListeners, 'Ready'
NormalFlowAuthenticated ==
    /\ pc = "awaitInitTokenSilent"
    /\ \E acquired \in BOOLEAN :
         /\ tab' = [tab EXCEPT !.tokenResponse = acquired]
         /\ Logged(IF acquired THEN {}
                   ELSE {LogText("app.js:391", "BrowserAuthError")})
    /\ ui' = [ui EXCEPT !.authenticatedView = TRUE,
                        !.unauthenticatedView = FALSE,
                        !.loading = FALSE,
                        !.statusText = StatusReady]
    /\ listeners' = TRUE
    /\ pc' = "done"
    /\ UNCHANGED <<location, hstate, pageReq,
                   fetchResult, cookieJar, timer>>
    /\ UNCHANGED server

\* the fetch of the exchange is fulfilled with the server's response; the
\* browser stores the cookies of the response (credentials: 'include')
FetchFulfilled ==
    /\ pc = "awaitExchange"
    /\ fetchResult = NotSettled
    /\ responses[pageReq].status # 0
    /\ fetchResult' = Fulfilled(responses[pageReq])
    /\ cookieJar' = IF responses[pageReq].cookies # <<>>
                    THEN responses[pageReq].cookies ELSE cookieJar
    /\ UNCHANGED <<location, pc, hstate, pageReq, ui, timer, listeners, tab>>
    /\ UNCHANGED server
    /\ UNCHANGED console

\* the fetch is rejected: the request or its response was lost, the server
\* was unreachable
FetchRejected ==
    /\ pc = "awaitExchange"
    /\ fetchResult = NotSettled
    /\ fetchResult' = Rejected
    /\ UNCHANGED <<location, pc, hstate, pageReq,
                   cookieJar, ui, timer, listeners, tab>>
    /\ UNCHANGED server
    /\ UNCHANGED console

\* ExchangeCatch with updateStatus(error.message, true)
ExchangeCatchStatusMessage(message) ==
    /\ ui' = [ui EXCEPT !.statusText = message,
                        !.debugContent = message,
                        !.loading = FALSE]
    /\ timer' = TRUE
    /\ hstate' = "FallbackLogin"
    /\ pc' = "done"

\* catch and finally of handleSessionTokenExchange: updateStatus(..., true),
\* showDebugInfo(error), setTimeout(showUnauthenticatedView, 2000),
\* showLoading(false)
ExchangeCatch(message) ==
    /\ ui' = [ui EXCEPT !.statusText = StatusExchangeFailed,
                        !.debugContent = message,
                        !.loading = FALSE]
    /\ timer' = TRUE
    /\ hstate' = "FallbackLogin"
    /\ pc' = "done"

\* AfterFetch without the test of response.ok: every response is read as
\* the success body
AfterFetchIgnoreOk ==
    /\ pc = "awaitExchange"
    /\ fetchResult # NotSettled
    /\ IF fetchResult.kind = "rejected"
       THEN /\ ExchangeCatch("Failed to fetch")
            /\ UNCHANGED location
       ELSE /\ location' = ReplaceState(location)
            /\ pc' = "awaitJson"
            /\ UNCHANGED <<hstate, ui, timer>>
    /\ UNCHANGED <<pageReq, fetchResult, cookieJar,
                   listeners, tab>>
    /\ UNCHANGED server
    /\ Logged(IF fetchResult.kind = "rejected"
              THEN {LogText("app.js:178", "Failed to fetch")} ELSE {})

\* handleSessionTokenExchange resumes after await fetch(...): on a
\* rejection the catch block runs; on a response the location is replaced
\* and response.json() is awaited
AfterFetch ==
    /\ pc = "awaitExchange"
    /\ fetchResult # NotSettled
    /\ IF fetchResult.kind = "rejected"
       THEN /\ ExchangeCatch("Failed to fetch")
            /\ UNCHANGED location
       ELSE /\ location' = ReplaceState(location)
            /\ pc' = IF ResponseOk(fetchResult.response)
                     THEN "awaitJson" ELSE "awaitErrorJson"
            /\ UNCHANGED <<hstate, ui, timer>>
    /\ UNCHANGED <<pageReq, fetchResult, cookieJar,
                   listeners, tab>>
    /\ UNCHANGED server
    /\ Logged(IF fetchResult.kind = "rejected"
              THEN {LogText("app.js:178", "Failed to fetch")} ELSE {})

\* the success body is parsed: handleAuthenticatedUser(account) runs up to
\* await msalInstance.acquireTokenSilent(request)
JsonParsed ==
    /\ pc = "awaitJson"
    /\ pc' = "awaitTokenSilent"
    /\ UNCHANGED <<location, hstate, pageReq,
                   fetchResult, cookieJar, ui, timer, listeners, tab>>
    /\ UNCHANGED server
    /\ UNCHANGED console

\* the success body cannot be read: response.json() rejects
JsonFailed ==
    /\ pc = "awaitJson"
    /\ ExchangeCatch("Unexpected end of JSON input")
    /\ UNCHANGED <<location, pageReq, fetchResult,
                   cookieJar, listeners, tab>>
    /\ UNCHANGED server
    /\ Logged({LogText("app.js:178", "Unexpected end of JSON input")})

\* ExchangeAuthenticated with the catch of handleAuthenticatedUser doing
\* what the catch of getAccessToken does: acquireTokenRedirect when the
\* silent acquisition fails
ExchangeAuthenticatedOrRedirect ==
    /\ pc = "awaitTokenSilent"
    /\ \E acquired \in BOOLEAN :
         IF acquired
         THEN /\ ui' = [ui EXCEPT !.authenticatedView = TRUE,
                                  !.unauthenticatedView = FALSE,
                                  !.loading = FALSE,
                                  !.statusText = StatusNative]
              /\ hstate' = "Authenticated"
              /\ pc' = "done"
              /\ tab' = [tab EXCEPT !.tokenResponse = TRUE]
         ELSE /\ ui' = ui
              /\ hstate' = hstate
              /\ pc' = "redirected"
              /\ tab' = [tab EXCEPT !.interactive = @ + 1, !.entries = @ + 1]
    /\ UNCHANGED <<location, pageReq, fetchResult,
                   cookieJar, timer, listeners>>
    /\ UNCHANGED server
    /\ UNCHANGED console

\* acquireTokenSilent settled (acquired: it resolved and tokenResponse is
\* set; otherwise its failure is caught and logged): showAuthenticatedView,
\* 'Authenticated', 'Authenticated via native app', showLoading(false)
ExchangeAuthenticated ==
    /\ pc = "awaitTokenSilent"
    /\ \E acquired \in BOOLEAN :
         /\ tab' = [tab EXCEPT !.tokenResponse = acquired]
         /\ Logged(IF acquired THEN {}
                   ELSE {LogText("app.js:391", "BrowserAuthError")})
    /\ ui' = [ui EXCEPT !.authenticatedView = TRUE,
                        !.unauthenticatedView = FALSE,
                        !.loading = FALSE,
                        !.statusText = StatusNative]
    /\ hstate' = "Authenticated"
    /\ pc' = "done"
    /\ UNCHANGED <<location, pageReq, fetchResult,
                   cookieJar, timer, listeners>>
    /\ UNCHANGED server

\* ExchangeRefused with the throw outside the try block of
\* handleSessionTokenExchange: the error reaches the catch of init()
ExchangeRefusedUncaught ==
    /\ pc = "awaitErrorJson"
    /\ InitFailed(Or(fetchResult.response.error, ErrFailed))

\* the error body is read (or not: then { error: 'Session initialization
\* failed' }), new Error(errorData.error || ...) is thrown and caught
ExchangeRefused ==
    /\ pc = "awaitErrorJson"
    /\ \E readable \in BOOLEAN :
         LET errorData == IF readable THEN fetchResult.response
                          ELSE ErrorResponse(0, ErrFailed, Undefined)
         IN  /\ ExchangeCatch(Or(errorData.error, ErrFailed))
             /\ Logged({LogEntry("app.js:174", errorData.error,
                                 errorData.details, tokEmpty),
                        LogText("app.js:178", Or(errorData.error, ErrFailed))})
    /\ UNCHANGED <<location, pageReq, fetchResult,
                   cookieJar, listeners, tab>>
    /\ UNCHANGED server

\* the fallback timer fires: showUnauthenticatedView()
FallbackTimer ==
    /\ timer
    /\ timer' = FALSE
    /\ ui' = [ui EXCEPT !.unauthenticatedView = TRUE,
                        !.authenticatedView = FALSE,
                        !.loading = FALSE]
    /\ UNCHANGED <<location, pc, hstate, pageReq,
                   fetchResult, cookieJar, listeners, tab>>
    /\ UNCHANGED server
    /\ UNCHANGED console

(***************************************************************************)
(* The user: reloads of the tab and clicks on the buttons.  A click        *)
(* reaches a handler only after setupEventListeners has run, and the       *)
(* button is in the view that is displayed.  The user clicks while no      *)
(* handler of the page is suspended.                                       *)
(***************************************************************************)
\* the user reloads the tab: the document is loaded again from the current
\* location, the script starts over, pending fetches and timers of the old
\* document are dropped and the browser's console is cleared; the cookies
\* stay
Reload ==
    /\ pc \notin {"closed", "redirected"}
    /\ tab.loads < MaxReloads
    /\ tab' = Load(location, tab.loads + 1, tab.interactive)
    /\ pc' = "start"
    /\ hstate' = "Idle"
    /\ pageReq' = 0
    /\ fetchResult' = NotSettled
    /\ ui' = [loading |-> FALSE, authenticatedView |-> FALSE,
              unauthenticatedView |-> FALSE, statusText |-> "",
              debugContent |-> Undefined]
    /\ timer' = FALSE
    /\ listeners' = FALSE
    /\ UNCHANGED <<location, cookieJar>>
    /\ UNCHANGED server
    /\ console' = {e \in console : e.site \in ServerSites}

\* SignIn with msalInstance.loginRedirect(loginRequest) called at once,
\* ssoSilent not tried
SignInRedirectFirst ==
    /\ pc = "done"
    /\ listeners
    /\ ui.unauthenticatedView
    /\ ui' = [ui EXCEPT !.loading = TRUE, !.statusText = StatusSigningIn]
    /\ pc' = "redirected"
    /\ tab' = [tab EXCEPT !.interactive = @ + 1, !.entries = @ + 1]
    /\ UNCHANGED <<location, hstate, pageReq, fetchResult,
                   cookieJar, timer, listeners>>
    /\ UNCHANGED server
    /\ UNCHANGED console

\* click on loginButton: signIn() up to await msalInstance.ssoSilent(...)
SignIn ==
    /\ pc = "done"
    /\ listeners
    /\ ui.unauthenticatedView
    /\ ui' = [ui EXCEPT !.loading = TRUE, !.statusText = StatusSigningIn]
    /\ pc' = "awaitSsoSilent"
    /\ tab' = [tab EXCEPT !.sso = "pending"]
    /\ UNCHANGED <<location, hstate, pageReq, fetchResult,
                   cookieJar, timer, listeners>>
    /\ UNCHANGED server
    /\ UNCHANGED console

\* SsoSilentResolved with showAuthenticatedView not hiding the
\* unauthenticated view
SsoSilentResolvedViewKept ==
    /\ pc = "awaitSsoSilent"
    /\ tab' = [tab EXCEPT !.tokenResponse = TRUE, !.sso = "resolved"]
    /\ ui' = [ui EXCEPT !.authenticatedView = TRUE,
                        !.loading = FALSE,
                        !.statusText = StatusAuthenticated]
    /\ pc' = "done"
    /\ UNCHANGED <<location, hstate, pageReq, fetchResult,
                   cookieJar, timer, listeners>>
    /\ UNCHANGED server
    /\ UNCHANGED console

\* ssoSilent resolved: handleResponse sets tokenResponse and the active
\* account, handleAuthenticatedUser shows the authenticated view without
\* awaiting anything, 'Authenticated', showLoading(false)
SsoSilentResolved ==
    /\ pc = "awaitSsoSilent"
    /\ tab' = [tab EXCEPT !.tokenResponse = TRUE, !.sso = "resolved"]
    /\ ui' = [ui EXCEPT !.authenticatedView = TRUE,
                        !.unauthenticatedView = FALSE,
                        !.loading = FALSE,
                        !.statusText = StatusAuthenticated]
    /\ pc' = "done"
    /\ UNCHANGED <<location, hstate, pageReq, fetchResult,
                   cookieJar, timer, listeners>>
    /\ UNCHANGED server
    /\ UNCHANGED console

\* ssoSilent rejected: msalInstance.loginRedirect(...) navigates the tab to
\* the identity provider
LoginRedirect ==
    /\ pc = "awaitSsoSilent"
    /\ tab' = [tab EXCEPT !.interactive = @ + 1, !.entries = @ + 1, !.sso = "rejected"]
    /\ pc' = "redirected"
    /\ UNCHANGED <<location, hstate, pageReq, fetchResult,
                   cookieJar, ui, timer, listeners>>
    /\ UNCHANGED server
    /\ UNCHANGED console

\* ssoSilent rejected and loginRedirect threw: the outer catch of signIn,
\* updateStatus('Sign in failed', true), showDebugInfo(error),
\* showLoading(false)
SignInFailed ==
    /\ pc = "awaitSsoSilent"
    /\ ui' = [ui EXCEPT !.statusText = StatusSignInFailed,
                        !.debugContent = "interaction_in_progress",
                        !.loading = FALSE]
    /\ pc' = "done"
    /\ tab' = [tab EXCEPT !.sso = "rejected"]
    /\ UNCHANGED <<location, hstate, pageReq, fetchResult,
                   cookieJar, timer, listeners>>
    /\ UNCHANGED server
    /\ Logged({LogText("app.js:235", "interaction_in_progress")})

\* click on logoutButton: signOut(), msalInstance.logoutRedirect(...)
\* navigates the tab to the identity provider
SignOut ==
    /\ pc = "done"
    /\ listeners
    /\ ui.authenticatedView
    /\ ui' = [ui EXCEPT !.loading = TRUE, !.statusText = StatusSigningOut]
    /\ pc' = "redirected"
    /\ tab' = [tab EXCEPT !.entries = @ + 1]
    /\ UNCHANGED <<location, hstate, pageReq, fetchResult,
                   cookieJar, timer, listeners>>
    /\ UNCHANGED server
    /\ UNCHANGED console

\* click on getProfileButton or getDataButton: getProfile() / getData() up
\* to await msalInstance.acquireTokenSilent(request) in getAccessToken();
\* the active account is set wherever the listeners are registered and
\* the authenticated view is shown
GetAccessToken ==
    /\ pc = "done"
    /\ listeners
    /\ ui.authenticatedView
    /\ ui' = [ui EXCEPT !.loading = TRUE]
    /\ pc' = "awaitAccessToken"
    /\ UNCHANGED <<location, hstate, pageReq, fetchResult,
                   cookieJar, timer, listeners, tab>>
    /\ UNCHANGED server
    /\ UNCHANGED console

\* acquireTokenSilent resolved: tokenResponse = response, the request to
\* Graph (getProfile) or to /api/data (getData) is sent with the bearer
\* token and its answer displayed (ok) or its failure alerted,
\* showLoading(false); getProfile logs the length of the token, the status
\* and the answer, getData the error
AccessTokenAcquired ==
    /\ pc = "awaitAccessToken"
    /\ tab' = [tab EXCEPT !.tokenResponse = TRUE]
    /\ ui' = [ui EXCEPT !.loading = FALSE]
    /\ pc' = "done"
    /\ UNCHANGED <<location, hstate, pageReq, fetchResult,
                   cookieJar, timer, listeners>>
    /\ UNCHANGED server
    /\ \E button \in {"getProfile", "getData"}, ok \in BOOLEAN :
         Logged(IF button = "getProfile"
                THEN {LogText("app.js:303", "token.length"),
                      LogText("app.js:312", IF ok THEN "200" ELSE "401")}
                     \cup (IF ok THEN {LogText("app.js:321", "profile")}
                           ELSE {LogText("app.js:316", "error text"),
                                 LogText("app.js:324",
                                         "Failed to fetch profile: 401")})
                ELSE IF ok THEN {}
                ELSE {LogText("app.js:352", "Failed to fetch data")})

\* acquireTokenSilent rejected (interaction: error.name is
\* 'InteractionRequiredAuthError'): acquireTokenRedirect navigates the tab
\* to the identity provider; any other error is rethrown and alerted
AccessTokenRejected(interaction) ==
    /\ pc = "awaitAccessToken"
    /\ IF interaction
       THEN /\ tab' = [tab EXCEPT !.interactive = @ + 1, !.entries = @ + 1]
            /\ pc' = "redirected"
            /\ ui' = ui
       ELSE /\ tab' = tab
            /\ pc' = "done"
            /\ ui' = [ui EXCEPT !.loading = FALSE]
    /\ UNCHANGED <<location, hstate, pageReq, fetchResult,
                   cookieJar, timer, listeners>>
    /\ UNCHANGED server
    /\ Logged({LogText("app.js:284", IF interaction
                                       THEN "InteractionRequiredAuthError"
                                       ELSE "BrowserAuthError")}
              \cup (IF interaction THEN {}
                    ELSE {LogText("app.js:352", "BrowserAuthError")}))

\* the token the tab was opened with
HandoffToken ==
    IF pageReq # 0 THEN requests[pageReq].sessionToken
    ELSE checkForSessionTokenInUrl(location)

\* someone who saw the token of the location (the address bar, the
\* history, a second load of the same link) posts it too
ReplayCall ==
    /\ HandoffToken.form # "empty"
    /\ Call(HandoffToken, MaxReplay)

\* no tab is open
PageClosed ==
    /\ location = Location("/", tokEmpty, "")
    /\ pc = "closed"
    /\ hstate = "Idle"
    /\ pageReq = 0
    /\ fetchResult = NotSettled
    /\ cookieJar = <<>>
    /\ ui = [loading |-> FALSE, authenticatedView |-> FALSE,
             unauthenticatedView |-> FALSE, statusText |-> "",
             debugContent |-> Undefined]
    /\ timer = FALSE
    /\ listeners = FALSE
    /\ tab = FirstLoad(location)

Next ==
    \/ ReplayCall
    \/ \E i \in 1..Len(requests) : PostInitializeSession(i)
    \/ Tick
    \/ \E msalLoaded \in BOOLEAN : InitStart(msalLoaded)
    \/ ConfigFetched
    \/ ConfigFailed
    \/ MsalInitFailed
    \/ StartExchange
    \/ StartNormalFlow
    \/ \E accounts \in 0..1 : NormalFlow(accounts)
    \/ NormalFlowAuthenticated
    \/ FetchFulfilled
    \/ FetchRejected
    \/ AfterFetch
    \/ JsonParsed
    \/ JsonFailed
    \/ ExchangeAuthenticated
    \/ ExchangeRefused
    \/ FallbackTimer

\* the page and the endpoint
Spec == Init /\ [][Next]_vars

\* the steps of the page's script, of the browser and of the network
PageNext ==
    \/ \E msalLoaded \in BOOLEAN : InitStart(msalLoaded)
    \/ ConfigFetched
    \/ ConfigFailed
    \/ MsalInitFailed
    \/ StartExchange
    \/ StartNormalFlow
    \/ \E accounts \in 0..1 : NormalFlow(accounts)
    \/ NormalFlowAuthenticated
    \/ FetchFulfilled
    \/ FetchRejected
    \/ AfterFetch
    \/ JsonParsed
    \/ JsonFailed
    \/ ExchangeAuthenticated
    \/ ExchangeRefused
    \/ FallbackTimer
    \/ SsoSilentResolved
    \/ LoginRedirect
    \/ SignInFailed
    \/ AccessTokenAcquired
    \/ \E interaction \in BOOLEAN : AccessTokenRejected(interaction)

\* what the user does
UserNext ==
    \/ Reload
    \/ SignIn
    \/ SignOut
    \/ GetAccessToken

TabNext ==
    \/ \E i \in 1..Len(requests) : PostInitializeSession(i)
    \/ Tick
    \/ PageNext
    \/ UserNext

\* the tab over its loads and reloads, its user, and the endpoint
SpecTab == Init /\ [][TabNext]_vars

\* the steps of the script that the event loop runs once they are ready:
\* the continuation of an await whose promise has settled, a timer that is
\* due.  FetchFulfilled and FetchRejected are not among them: they are the
\* network's, and fetch(...) is called without signal or timeout
ScriptNext ==
    \/ \E msalLoaded \in BOOLEAN : InitStart(msalLoaded)
    \/ ConfigFetched
    \/ ConfigFailed
    \/ MsalInitFailed
    \/ StartExchange
    \/ StartNormalFlow
    \/ \E accounts \in 0..1 : NormalFlow(accounts)
    \/ NormalFlowAuthenticated
    \/ AfterFetch
    \/ JsonParsed
    \/ JsonFailed
    \/ ExchangeAuthenticated
    \/ ExchangeRefused
    \/ FallbackTimer

\* the page and the endpoint, where the script runs whenever it can and
\* the server answers every request it receives
SpecFair ==
    /\ Spec
    /\ WF_vars(ScriptNext)
    /\ WF_vars(\E i \in 1..Len(requests) : PostInitializeSession(i))

\* one load of the page, opened on any location, its user, and the endpoint
ScrubNext ==
    \/ \E i \in 1..Len(requests) : PostInitializeSession(i)
    \/ PageNext
    \/ SignIn
    \/ SignOut
    \/ GetAccessToken

ScrubInit == ServerInit /\ PageAnywhere /\ ConsoleInit

SpecScrub == ScrubInit /\ [][ScrubNext]_vars

\* the endpoint under callers that post any body, one call after the other
ServerNext ==
    \/ \E t \in Bodies : DirectCall(t)
    \/ \E i \in 1..Len(requests) : PostInitializeSession(i)
    \/ Tick

\* the endpoint is up and no tab is open
ServerOnlyInit == ServerInit /\ PageClosed /\ ConsoleInit

SpecServer == ServerOnlyInit /\ [][ServerNext]_vars

\* the protected endpoints under callers that send any Authorization header
ApiNext ==
    \/ \E endpoint \in Endpoints, authHeader \in Headers :
          ProtectedRequest(endpoint, authHeader)
    \/ Tick

SpecApi == ServerOnlyInit /\ [][ApiNext]_vars

(***************************************************************************)
(* Vocabulary of the properties.                                           *)
(***************************************************************************)
\* the k-th request the server handled, its token, its time, its response
Req(k) == order[k].req
Tok(k) == requests[Req(k)].sessionToken
At(k) == order[k].at
Res(k) == responses[Req(k)]

Handlings == 1..Len(order)

\* the call succeeded and issued the session credential
Succeeded(k) == Res(k).status = 200 /\ Res(k).success /\ Res(k).cookies # <<>>

\* the call failed with a client error and issued nothing
Refused(k) ==
    /\ Res(k).status \in 400..499
    /\ ~Res(k).success
    /\ Res(k).cookies = <<>>

\* the second call was sent after the first had been answered
Sequential(a, b) == a < b /\ requests[Req(b)].seen >= a

\* each call was sent before the other was answered
Concurrent(a, b) ==
    /\ a # b
    /\ requests[Req(a)].seen < b
    /\ requests[Req(b)].seen < a

\* now < expiresAt, for a token that has an expiry
Unexpired(t, at) == TruthyNum(t.exp) /\ at < t.exp * MsPerSec

\* a token as the mint operation issues them
WellFormed(t) == t.form = "claims" /\ t.sig /\ TruthyNum(t.exp)

\* the subject and the e-mail address a token's claims name
SubjectOf(t) == IF TruthyStr(t.sub) THEN t.sub ELSE t.oid
EmailOf(t) == IF TruthyStr(t.email) THEN t.email ELSE t.preferred_username

\* C1: once a call with a token has succeeded, every later call with the
\* same token (sent after the first was answered) is refused and sets no
\* session cookie.
C1_SingleUseSequential ==
    \A a, b \in Handlings :
        (Sequential(a, b) /\ Tok(a).jti = Tok(b).jti /\ Succeeded(a))
            => Refused(b)

\* C2: of the calls that carry the same valid, unexpired token and are in
\* flight together, exactly one succeeds.
C2_SingleUseConcurrent ==
    \A G \in SUBSET Handlings :
        ( /\ Cardinality(G) >= 2
          /\ \A a, b \in G : a # b =>
                 Tok(a).jti = Tok(b).jti /\ Concurrent(a, b)
          /\ \A a \in G : /\ WellFormed(Tok(a))
                          /\ Tok(a).type = "session_init"
                          /\ Unexpired(Tok(a), At(a)) )
            => Cardinality({a \in G : Succeeded(a)}) = 1

\* C3: a call with a well-formed, unexpired, never-redeemed session_init
\* token succeeds, and the cookie and the response body carry the subject,
\* the display name and the e-mail address of that token.
C3_SessionMatchesToken ==
    \A a \in Handlings :
        ( /\ WellFormed(Tok(a))
          /\ Tok(a).type = "session_init"
          /\ Unexpired(Tok(a), At(a))
          /\ \A b \in Handlings : b < a => Tok(b).jti # Tok(a).jti )
            => /\ Succeeded(a)
               /\ Len(Res(a).cookies) = 1
               /\ Res(a).cookies[1].userId = SubjectOf(Tok(a))
               /\ Res(a).cookies[1].userName = Tok(a).name
               /\ Res(a).cookies[1].email = EmailOf(Tok(a))
               /\ Res(a).user.name = Tok(a).name
               /\ Res(a).user.email = EmailOf(Tok(a))

\* C3 witness: Alice's and Bob's tokens were both redeemed, each for its
\* own subject.
C3_Witness ==
    \E a, b \in Handlings :
        /\ Tok(a) = tokAlice /\ Succeeded(a)
        /\ Tok(b) = tokBob /\ Succeeded(b)
        /\ Res(a).cookies[1].userId = "sub-alice"
        /\ Res(b).cookies[1].userId = "oid-bob"

\* C4: a call with a token whose expiresAt is less than or equal to the
\* time of the call (the boundary included) returns Expired and issues no
\* credential.
C4_ExpiredAtOrAfterExpiry ==
    \A a \in Handlings :
        ( /\ Tok(a).form = "claims"
          /\ Tok(a).type = "session_init"
          /\ TruthyNum(Tok(a).exp)
          /\ Tok(a).exp * MsPerSec <= At(a) )
            => Refused(a) /\ Res(a).error = ErrExpired

\* C5 as stated: a call with a decodable token of another kind returns
\* WrongKind whatever its expiry is.
C5_WrongKindWhateverExpiry ==
    \A a \in Handlings :
        (Tok(a).form = "claims" /\ Tok(a).type # "session_init")
            => Refused(a) /\ Res(a).error = ErrType

\* C5 amended: a call with a decodable token of another kind is refused
\* and issues no credential; it returns Expired when the token has an exp
\* claim earlier than the time of the call, and WrongKind otherwise (the
\* expiry check precedes the kind check).
C5_WrongKindAfterExpiry ==
    \A a \in Handlings :
        (Tok(a).form = "claims" /\ Tok(a).type # "session_init")
            => /\ Refused(a)
               /\ Res(a).error =
                     IF TruthyNum(Tok(a).exp) /\ Tok(a).exp * MsPerSec < At(a)
                     THEN ErrExpired ELSE ErrType

\* C5 witness: an expired token of another kind was answered Expired, and
\* an unexpired one WrongKind.
C5_Witness ==
    \E a, b \in Handlings :
        /\ Tok(a) = tokAccess /\ Res(a).error = ErrExpired
        /\ Tok(b) = tokAccess /\ Res(b).error = ErrType

\* C6: a call with a token whose signature does not verify never succeeds
\* and issues no credential.
C6_NoSuccessWithoutSignature ==
    \A a \in Handlings : ~Tok(a).sig => Refused(a)

\* C7: a call with a string that cannot be decoded into a claims set fails
\* with Malformed, a client error, and issues no credential.
C7_UndecodableIsMalformed ==
    \A a \in Handlings :
        Tok(a).form \in {"garbage", "throws", "nullPayload", "scalarPayload"}
            => Refused(a) /\ Res(a).error = ErrFormat

\* C8: a call that ends in an error sets no session cookie and leaves the
\* state of the server as it was.
C8_NoEffectOnFailure ==
    \A a \in Handlings :
        Res(a).status # 200
            => /\ Res(a).cookies = <<>>
               /\ ~Res(a).success
               /\ Res(a).user = NoUser

\* C8 witness: a call ended in the catch block and another was refused as
\* expired, both without cookie.
C8_Witness ==
    \E a, b \in Handlings :
        /\ Res(a).error = ErrFailed /\ Res(a).cookies = <<>>
        /\ Res(b).error = ErrExpired /\ Res(b).cookies = <<>>

\* C9: when the result of the exchange (a response or a network error) is
\* delivered to the page, the token is no longer in the location.
C9_ScrubBeforeResult ==
    fetchResult # NotSettled => ~TokenInUrl(location)

\* C10: once the handoff has reached Authenticated or FallbackLogin, the
\* location holds no session_token.
C10_NoTokenAfterHandoff ==
    hstate \in {"Authenticated", "FallbackLogin"} => ~TokenInUrl(location)

\* the error strings of the endpoint: fixed texts, none built from the request
GenericErrors == {ErrRequired, ErrFormat, ErrExpired, ErrType, ErrFailed}

CredentialCookie(k) ==
    /\ Len(Res(k).cookies) = 1
    /\ Res(k).cookies[1].name = "session"
    /\ Res(k).cookies[1].httpOnly
    /\ Res(k).cookies[1].sameSite = "lax"
    /\ Res(k).cookies[1].maxAge = 86400000
    /\ DOMAIN Res(k).user = {"name", "email", "username"}

\* C19 as stated: the cookie of every successful call is httpOnly, lax,
\* 24 hours, absent from the body, and secure whenever NODE_ENV is not
\* development.
C19_SecureOutsideDevelopment ==
    \A k \in Handlings :
        Succeeded(k)
            => /\ CredentialCookie(k)
               /\ (nodeEnv # "development" => Res(k).cookies[1].secure)

\* C19 amended: the cookie of every successful call is httpOnly, lax,
\* 24 hours, absent from the body, and secure exactly when NODE_ENV is
\* production.
C19_SecureInProduction ==
    \A k \in Handlings :
        Succeeded(k)
            => /\ CredentialCookie(k)
               /\ (Res(k).cookies[1].secure <=> nodeEnv = "production")

\* C19 witness: a call succeeded under NODE_ENV staging and its cookie has
\* no secure flag.
C19_Witness ==
    \E k \in Handlings :
        /\ Succeeded(k) /\ nodeEnv = "staging"
        /\ CredentialCookie(k) /\ ~Res(k).cookies[1].secure

\* C20: no call succeeds with a token presented more than 60 seconds after
\* its iat, nor with a token whose exp is more than 60 seconds after its
\* iat.
C20_MaxLifetime ==
    \A k \in Handlings :
        Succeeded(k)
            => /\ At(k) <= (Tok(k).iat + TokenLifetimeSec) * MsPerSec
               /\ Tok(k).exp - Tok(k).iat <= TokenLifetimeSec

\* the exchange requests the page has sent
PageRequests == {i \in 1..Len(requests) : requests[i].from = "page"}

\* the fetch of the exchange failed: rejected, or answered with an error status
ExchangeFailed ==
    \/ fetchResult.kind = "rejected"
    \/ fetchResult.kind = "response" /\ ~ResponseOk(fetchResult.response)

\* C11: over the loads and reloads of the tab, a token is detected, and
\* posted to the endpoint by the page, at most once.
C11_DetectedOnce ==
    \A i, j \in PageRequests :
        requests[i].sessionToken.jti = requests[j].sessionToken.jti => i = j

\* C12: once the exchange has failed and the catch block has run, the
\* handoff is in FallbackLogin, not Authenticated, and when the fallback
\* timer has fired the login view is displayed with a working sign-in
\* button (its click handler is registered).
C12_FallbackOffersLogin ==
    (ExchangeFailed /\ pc = "done")
        => /\ hstate = "FallbackLogin"
           /\ ~ui.authenticatedView
           /\ (~timer => ui.unauthenticatedView /\ listeners)

C14_NoTokenNoExchange ==
    tab.loaded.form = "empty"
        => /\ hstate = "Idle"
           /\ tab.sent = 0
           /\ pageReq = 0
           /\ pc \notin {"awaitExchange", "awaitJson", "awaitErrorJson",
                         "awaitTokenSilent"}
           /\ (pc = "done" /\ ui.statusText # StatusInitError
                 => /\ listeners
                    /\ ui.authenticatedView \/ ui.unauthenticatedView)

\* C14 witness: the tab was opened without token, nothing was ever posted,
\* and the login view is displayed with its button wired.
C14_Witness ==
    /\ tab.loaded = tokEmpty /\ tab.loads = 0
    /\ requests = <<>>
    /\ pc = "done" /\ listeners /\ ui.unauthenticatedView
    /\ ui.statusText = StatusReady

\* C15: when the success body of the exchange has been read, the next step
\* of the script (whether acquireTokenSilent resolved or not) puts the
\* handoff in Authenticated with the authenticated view displayed, and no
\* interactive login (loginRedirect, acquireTokenRedirect) has been begun
\* then or later in an Authenticated handoff.
C15_AuthenticatedWithoutPrompt ==
    /\ [](hstate = "Authenticated"
            => ui.authenticatedView /\ ~ui.unauthenticatedView
               /\ ~ui.loading /\ tab.interactive = 0)
    /\ [][(pc = "awaitTokenSilent" /\ pc' # pc /\ tab'.loads = tab.loads)
             => (hstate' = "Authenticated" /\ pc' = "done"
                 /\ tab'.interactive = tab.interactive)]_vars

\* C15 witness: the handoff is Authenticated with the authenticated view
\* displayed although the silent token acquisition failed.
C15_Witness ==
    /\ hstate = "Authenticated"
    /\ ui.authenticatedView /\ ui.statusText = StatusNative
    /\ ~tab.tokenResponse
    /\ fetchResult.kind = "response" /\ fetchResult.response.status = 200

\* C16: a handoff in Exchanging eventually is in Authenticated or in
\* FallbackLogin.
C16_ExchangeEnds ==
    (hstate = "Exchanging") ~> (hstate \in {"Authenticated", "FallbackLogin"})

\* what the debug panel shows after a failed exchange: the message of the
\* error that was caught
FailureMessages ==
    {ErrFormat, ErrExpired, ErrType, ErrFailed,
     "Failed to fetch", "Unexpected end of JSON input"}

C28_MissingTokenIs400 ==
    \A k \in Handlings :
        Tok(k).form = "empty"
            => /\ Res(k).status = 400
               /\ Res(k).error = ErrRequired
               /\ Res(k).cookies = <<>>
               /\ Res(k).user = NoUser
               /\ Res(k).details = Undefined

\* C28 witness: a call without sessionToken was answered 400 after a call
\* with a token had succeeded.
C28_Witness ==
    \E a, b \in Handlings :
        /\ a < b
        /\ Succeeded(a)
        /\ Tok(b) = tokEmpty /\ Res(b).status = 400

\* C21: after a successful handoff (the session cookie is in the browser),
\* a reload from the location without token ends, unless init() fails,
\* with the authenticated view displayed.
C21_SessionPersists ==
    ( /\ cookieJar # <<>>
      /\ tab.loads > 0 /\ tab.loaded.form = "empty"
      /\ pc = "done" /\ ui.statusText # StatusInitError )
        => ui.authenticatedView /\ ~ui.unauthenticatedView

\* C22: after a successful handoff, with the authenticated view displayed,
\* a click on the data or profile button starts its request (the handlers
\* are registered).
C22_DataAfterHandoff ==
    (hstate = "Authenticated" /\ pc = "done")
        => ui.authenticatedView /\ listeners

\* the script is suspended inside handleSessionTokenExchange
InExchange ==
    pc \in {"awaitExchange", "awaitJson", "awaitErrorJson", "awaitTokenSilent"}

\* C26: while the handoff is in Exchanging the loading indicator is shown,
\* no click handler is registered and the script is inside
\* handleSessionTokenExchange; once the handoff is in Authenticated or in
\* FallbackLogin the indicator is hidden.
C26_BusyWhileExchanging ==
    /\ hstate = "Exchanging" => ui.loading /\ ~listeners /\ InExchange
    /\ InExchange => hstate = "Exchanging"
    /\ hstate \in {"Authenticated", "FallbackLogin"} => ~ui.loading

\* C26 witness: the refusal of the exchange has arrived and is not handled
\* yet; the indicator is shown and no handler is registered.
C26_Witness ==
    /\ hstate = "Exchanging" /\ pc = "awaitErrorJson"
    /\ fetchResult.kind = "response"
    /\ ui.loading /\ ~listeners

\* C29: a step of signIn that begins an interactive login is the one that
\* follows a rejected ssoSilent of the same call; a step in which ssoSilent
\* resolves begins none and ends with the authenticated view displayed.
C29_SilentFirst ==
    /\ [][(tab'.interactive > tab.interactive /\ pc # "awaitAccessToken")
            => (pc = "awaitSsoSilent" /\ tab.sso = "pending"
                /\ tab'.sso = "rejected")]_vars
    /\ [][(tab'.sso = "resolved" /\ tab.sso # "resolved")
            => ( /\ tab'.interactive = tab.interactive
                 /\ pc' = "done"
                 /\ ui'.authenticatedView /\ ~ui'.unauthenticatedView
                 /\ ~ui'.loading )]_vars
    /\ [](pc = "awaitSsoSilent" => tab.sso = "pending")

\* C29 witness: ssoSilent resolved, no interactive login was begun and the
\* authenticated view is displayed.
C29_Witness ==
    /\ tab.sso = "resolved" /\ tab.interactive = 0
    /\ pc = "done" /\ ui.authenticatedView
    /\ ui.statusText = StatusAuthenticated

\* C30: whenever the login view or the authenticated view is displayed, the
\* click handlers of its buttons are registered.
C30_ViewsAreWired ==
    (ui.authenticatedView \/ ui.unauthenticatedView) => listeners

\* the protected requests handled so far
ApiCalls == 1..Len(api)

\* the token behind 'Bearer ' decodes to a payload and has no exp claim
\* earlier than the time of the request
BearerAcceptable(authHeader, at) ==
    /\ authHeader.scheme = "Bearer"
    /\ authHeader.token.form \in {"claims", "scalarPayload"}
    /\ ~(authHeader.token.form = "claims"
          /\ TruthyNum(authHeader.token.exp)
          /\ authHeader.token.exp * MsPerSec < at)

\* C23: the handler of a protected endpoint runs exactly for the requests
\* whose Authorization header is 'Bearer <token>' with a token that decodes
\* and is not expired; every other request is answered 401 and the handler
\* does not run.
C23_BearerRequired ==
    \A k \in ApiCalls :
        IF BearerAcceptable(api[k].authorization, api[k].at)
        THEN api[k].response.served /\ api[k].response.status = 200
        ELSE ~api[k].response.served /\ api[k].response.status = 401

\* C23 witness: a request with an expired bearer token was answered 401
\* 'Token expired' and the handler did not run.
C23_Witness ==
    \E k \in ApiCalls :
        /\ api[k].authorization = Authorization("Bearer", tokAccess)
        /\ api[k].response.status = 401
        /\ api[k].response.error = ErrTokenExpired
        /\ ~api[k].response.served

\* C24: no request is served whose bearer token has a signature that does
\* not verify against the tenant's signing keys.
C24_SignatureVerified ==
    \A k \in ApiCalls :
        api[k].response.served => api[k].authorization.token.sig

InitFailedBeforeDetection ==
    /\ pc = "done"
    /\ hstate = "Idle"
    /\ ui.statusText = StatusInitError

\* C31: a load whose location carries a session token and whose init()
\* failed before the detection of the token (MSAL not loaded, GET /api/config
\* failed, MSAL initialization threw) eventually has no token in its location.
C31_ScrubbedDespiteInitFailure ==
    (TokenInUrl(location) /\ InitFailedBeforeDetection)
        ~> ~TokenInUrl(location)

\* the server answered the exchange request of this load of the page with
\* success and set the session cookie, and the page received that response
PageExchangeSucceeded ==
    /\ pageReq \in PageRequests
    /\ responses[pageReq].status = 200
    /\ responses[pageReq].success
    /\ responses[pageReq].cookies # <<>>
    /\ fetchResult = Fulfilled(responses[pageReq])

\* C32: the handoff is Authenticated only if the server answered the page's
\* own exchange request with success and set the session cookie; after an
\* error response, a network error or an unreadable body the handoff is
\* never Authenticated and the authenticated view is not displayed.
C32_AuthenticatedOnlyOnSuccess ==
    /\ hstate = "Authenticated" => PageExchangeSucceeded
    /\ (hstate # "Idle" /\ ui.authenticatedView) => hstate = "Authenticated"
    /\ ExchangeFailed => hstate # "Authenticated" /\ ~ui.authenticatedView

\* C32 witness: the page is Authenticated through the handoff, the cookie of
\* the server's success response is in the browser.
C32_Witness ==
    /\ hstate = "Authenticated"
    /\ PageExchangeSucceeded
    /\ cookieJar = responses[pageReq].cookies
    /\ ui.authenticatedView

\* the token decodes to claims among which exp is absent or 0
NoExpiry(t) == t.form = "claims" /\ ~TruthyNum(t.exp)

\* C33: no exchange call with a token that has no exp claim (or exp 0)
\* succeeds or issues a cookie, and no protected request with such a bearer
\* token is served.
C33_NoExpiryRejected ==
    /\ \A k \in Handlings :
          NoExpiry(Tok(k)) => ~Succeeded(k) /\ Res(k).cookies = <<>>
    /\ \A k \in ApiCalls :
          ( /\ api[k].authorization.scheme = "Bearer"
            /\ NoExpiry(api[k].authorization.token) )
          => ~api[k].response.served

\* C34: the authenticated view and the unauthenticated view are never both
\* displayed, in particular while the fallback timer of a failed handoff is
\* pending and after it has fired.
C34_AtMostOneView ==
    ~(ui.authenticatedView /\ ui.unauthenticatedView)

\* C34 witness: the handoff failed, its fallback timer has fired and the
\* unauthenticated view is displayed.
C34_Witness ==
    /\ hstate = "FallbackLogin"
    /\ ~timer
    /\ ui.unauthenticatedView /\ ~ui.authenticatedView

\* C35: a step that changes the location (the scrub) keeps its pathname and
\* its fragment and leaves no session_token in the query; the document is
\* not loaded again, the tab does not navigate, and the session history has
\* as many entries as before.
C35_ScrubChangesQueryOnly ==
    [][location' # location
         => /\ location'.pathname = location.pathname
            /\ location'.hash = location.hash
            /\ TokenInUrl(location) /\ ~TokenInUrl(location')
            /\ tab'.loads = tab.loads
            /\ tab'.entries = tab.entries
            /\ pc' \notin {"start", "redirected", "closed"}]_vars

\* C35 witness: a tab opened on /app?session_token=<token>#profile is on
\* /app#profile after the exchange was answered, in the same document and
\* with one history entry.
C35_Witness ==
    /\ tab.loaded = tokAlice
    /\ location = Location("/app", tokEmpty, "#profile")
    /\ fetchResult.kind = "response"
    /\ tab.loads = 0 /\ tab.entries = 1

====
